---- MODULE Spec2Model ----
(***************************************************************************)
(* Model of the vectorized environment coordinator AsyncVectorEnv          *)
(* (common/gym_wrappers/batch_env/async_vector_env.py): N worker           *)
(* processes, one duplex pipe per worker, the controller's call state      *)
(* machine and the apply / apply_at operations built on it.                *)
(*                                                                         *)
(* Python lists are sequences: the element at Python index i is at         *)
(* position i + 1.  Workers are numbered 0 .. N-1 as in the source.        *)
(***************************************************************************)
EXTENDS Integers, Sequences, FiniteSets, TLC

\* ------------------------------------------------------------------ bounds
\* Number of environments (len(env_fns)).
NumEnvs == 2
\* Most messages (commands not yet executed and replies not yet read, of
\* the round in progress and of earlier rounds) on all the pipes together.
MaxInFlight == 3
\* Most proxies the lru_cache of __get_env_proxy keeps (its maxsize, scaled
\* down from the default of functools.lru_cache).
LruMaxSize == 3
\* Most objects in a chain of wrappers given to set_wrapper_attribute.
MaxLayers == 3

Workers == 0 .. (NumEnvs - 1)

\* ------------------------------------------------------------- data values
\* AsyncState.DEFAULT / WAITING_RESET / WAITING_STEP and
\* ExtendedAsyncState.WAITING_APPLY, by their .value
DEFAULT == "default"
WAITING_RESET == "reset"
WAITING_STEP == "step"
WAITING_APPLY == "apply"

\* Units of work shipped to the workers: one that returns a value and one
\* that raises inside the worker.
Funcs == {"f", "boom"}
None == "None"
\* An entry of the `functions` list: a callable or the placeholder None.
Entries == Funcs \cup {None}

\* Attribute names read and written through the proxies: a public name and
\* a private one (leading underscore).
Names == {"a", "_p"}

\* attrgetter(name)
AttrGetter(name) == IF name = "a" THEN "get a" ELSE "get _p"
\* The value written through the proxies.
NewValue == "v1"
\* partial(set_wrapper_attribute, name=name, value=value)
AttrSetter(name, value) == IF name = "a" THEN "set a v1" ELSE "set _p v1"
\* partial(hasattr_, name=name)
HasAttrProbe(name) == IF name = "a" THEN "has a" ELSE "has _p"
\* The call of method `name` with the arguments x of a batched call.
MethodCaller(name) == IF name = "a" THEN "call a" ELSE "call _p"

\* The names given to the bulk operations getattributes(*names) and
\* setattributes(**names_and_values): none, one or two.
BulkNames == {<<>>, <<"a">>, <<"_p">>, <<"a", "_p">>}
\* attrgetter(*names), for at least one name.
BulkGetter(names) ==
    CASE names = <<"a">> -> "gets a"
      [] names = <<"_p">> -> "gets _p"
      [] OTHER -> "gets a _p"
\* partial(setattrs, **names_and_values), every value being NewValue.
BulkSetter(names) ==
    CASE names = <<>> -> "sets"
      [] names = <<"a">> -> "sets a"
      [] names = <<"_p">> -> "sets _p"
      [] OTHER -> "sets a _p"
BulkGetters == {BulkGetter(ns) : ns \in BulkNames \ {<<>>}}
BulkSetters == {BulkSetter(ns) : ns \in BulkNames}
\* The names a bulk unit carries.
UnitNames(u) ==
    CHOOSE ns \in BulkNames :
        \/ ns # <<>> /\ u = BulkGetter(ns)
        \/ u = BulkSetter(ns)

\* The units of work the attribute proxies and __getattr__ ship.
ProxyUnits ==
    {AttrGetter(n) : n \in Names} \cup {AttrSetter(n, NewValue) : n \in Names}
    \cup {HasAttrProbe(n) : n \in Names} \cup {MethodCaller(n) : n \in Names}
    \cup BulkGetters \cup BulkSetters

\* What a unit of the proxies does, and the attribute name it carries.
UnitOp(u) ==
    CASE u \in {AttrGetter(n) : n \in Names} -> "get"
      [] u \in {AttrSetter(n, NewValue) : n \in Names} -> "set"
      [] u \in {HasAttrProbe(n) : n \in Names} -> "has"
      [] u \in {MethodCaller(n) : n \in Names} -> "call"
      [] u \in BulkGetters -> "gets"
      [] u \in BulkSetters -> "sets"
      [] OTHER -> "func"

UnitName(u) ==
    IF u \in {AttrGetter("a"), AttrSetter("a", NewValue), HasAttrProbe("a"),
               MethodCaller("a")}
    THEN "a" ELSE "_p"

\* Python's callable(x) on an entry of the list.
Callable(x) == x \in Funcs \cup ProxyUnits

NoneValue == <<"None">>

\* The private state of worker i's environment (distinct per worker).
EnvOf(i) == 10 * (i + 1)

\* function(env): the value a unit of work returns on an environment.
CallValue(fn, e) == <<fn, e>>
\* Whether function(env) raises.
CallRaises(fn) == fn = "boom"

\* ------------------------------------------------------------ environments
\* Python's `name in names`.
InNames(n, names) == \E j \in 1 .. Len(names) : names[j] = n

\* An environment is a chain of layers, the outermost wrapper first and the
\* unwrapped environment last.  A layer says for each name what it holds
\* itself: nothing ("missing"), a method ("method") or a plain value.
Missing == "missing"
Method == "method"
Layer(a, p) == [n \in Names |-> IF n = "a" THEN a ELSE p]

\* gym.Wrapper.__getattr__: a wrapper passes the lookup of a name it does not
\* hold on to the environment it wraps, except for private names.
Delegates(name) == name = "a"

\* getattr(env, name) from layer j of the chain on (Missing: AttributeError).
RECURSIVE GetAttr(_, _, _)
GetAttr(chain, j, name) ==
    IF chain[j][name] # Missing THEN chain[j][name]
    ELSE IF j < Len(chain) /\ Delegates(name) THEN GetAttr(chain, j + 1, name)
    ELSE Missing

\* hasattr(env, name) at layer j.
HasAttr(chain, j, name) == GetAttr(chain, j, name) # Missing

\* hasattr(env, "env") at layer j: every layer but the last wraps another.
HasEnv(chain, j) == j < Len(chain)

\* set_wrapper_attribute: the layer the while loop stops at, starting from
\* layer j (the chains are acyclic, `env not in wrappers` holds throughout).
RECURSIVE SetLayer(_, _, _)
SetLayer(chain, j, name) ==
    IF ~HasAttr(chain, j, name) /\ HasEnv(chain, j)
    THEN SetLayer(chain, j + 1, name)
    ELSE j

\* set_wrapper_attribute(env, name, value): the chain after the setattr.
SetWrapperAttribute(chain, name, value) ==
    [chain EXCEPT ![SetLayer(chain, 1, name)][name] = value]

\* inspect.ismethod on a result received from a worker.
IsMethod(result) == result[1] = "method"

\* Truth value of a result (the results of hasattr_ are booleans).
Truthy(result) ==
    /\ result[1] # "None"
    /\ ~(result[1] = "bool" /\ result[2] = "False")

\* The environments the workers are constructed with by default: unwrapped,
\* with `a` a method.
DefaultEnv == <<Layer(Method, Missing)>>

\* timeout argument of the *_wait calls: None or a finite number of seconds.
Timeouts == {"None", "finite"}

\* Lists whose length is not the number of environments (shorter ones, the
\* empty one included, and one that is one entry too long).  They are
\* rejected on their length, whatever their entries.
WrongLengthLists ==
    {[j \in 1 .. n |-> "f"] : n \in (0 .. (NumEnvs + 1)) \ {NumEnvs}}

\* The `functions` argument of apply / apply_async: one callable, a list
\* with one entry per environment, or a list of another length.
FunctionArgs ==
    [kind : {"callable"}, v : Funcs]
    \cup [kind : {"list"}, v : [1 .. NumEnvs -> Entries]]
    \cup [kind : {"list"}, v : WrongLengthLists]

\* The `index` argument of apply_at: an int, or a list of worker indices
\* (any order, repeats allowed).
IndexArgs ==
    [kind : {"int"}, v : Workers]
    \cup [kind : {"list"}, v : UNION {[1 .. n -> Workers] : n \in 1 .. 2}]

\* Integers that are not the index of a worker, below and above 0 .. N-1.
OutOfRangeInts == {-(NumEnvs + 1), -NumEnvs, -1, NumEnvs}

\* An int `index` of apply_at, whether it names a worker or not.
IntIndexArgs == [kind : {"int"}, v : Workers \cup OutOfRangeInts]

VARIABLES
    state,           \* self._state
    expects_result,  \* self.expects_result
    toWorker,        \* per worker: commands sent on parent_pipes[i], unread
    toCtrl,          \* per worker: replies sent by worker i, unread
    pc,              \* where the controller is: "idle" (between calls),
                     \* "poll" (in _poll), "recv" (in the receive loop),
                     \* "read" (reading the shared observation buffer),
                     \* "done" (a call has just returned or raised),
                     \* "forward" (in __getattr__, after the hasattr round),
                     \* "closed" (the coordinator is closed)
    call,            \* the public call in progress
    k,               \* loop index of the receive loop
    results,         \* local `results` of the wait in progress
    successes,       \* local `successes` of the wait in progress
    sent,            \* history: what the latest *_async sent to each worker
    staleRead,       \* history: per turn of the receive loop, whether the
                     \* reply it read belongs to an earlier round
    ret,             \* outcome of the latest completed public call
    writing,         \* per worker: it is writing its slot of the shared
                     \* observation buffer
    envs,            \* per worker: its environment (a chain of layers)
    prev,            \* history: what the call before this one was, when it
                     \* wrote an attribute at one index or returned a
                     \* BatchedMethod
    given,           \* the index the caller's proxy was made from
                     \* (coordinator[given]), when it holds one
    alive,           \* per worker: its process is running
    cache,           \* the lru_cache of __get_env_proxy: the keys it holds,
                     \* least recently used first, and whether the latest
                     \* lookup made a new Proxy
    swa              \* a call of set_wrapper_attribute on a chain of its
                     \* own: the chain, `env`, `wrappers` and where it stands

vars == <<state, expects_result, toWorker, toCtrl, pc, call, k, results,
          successes, sent, staleRead, ret, writing, envs, prev, given, alive,
          cache, swa>>

NoIndex == [kind |-> "none", v |-> <<>>]
NoCall == [op |-> "none", wait |-> "none", index |-> NoIndex, timeout |-> "none"]

NoRet ==
    [op |-> "none", kind |-> "none", exc |-> "none", named |-> "none",
     islist |-> TRUE, batched |-> FALSE, value |-> <<>>]

\* The call raised `exc`; `named` is the call state its message names.
Raise(op, exc, named) ==
    [op |-> op, kind |-> "raise", exc |-> exc, named |-> named,
     islist |-> TRUE, batched |-> FALSE, value |-> <<>>]

\* The call returned `value` (a list of values when islist, else one value).
Return(op, islist, value) ==
    [op |-> op, kind |-> "return", exc |-> "none", named |-> "none",
     islist |-> islist, batched |-> FALSE, value |-> value]

\* No Proxy is cached yet.
EmptyCache == [keys |-> <<>>, made |-> FALSE]

\* No call of set_wrapper_attribute is followed.
NoSwa == [layers |-> <<>>, back |-> 0, name |-> "none", env |-> 0, wrappers |-> <<>>,
          at |-> "none", was |-> <<>>]

NoPrev == [kind |-> "none", name |-> "none", index |-> NoIndex]

\* The call returned a BatchedMethod made of the method objects `value`.
ReturnBatched(op, value) ==
    [op |-> op, kind |-> "return", exc |-> "none", named |-> "none",
     islist |-> TRUE, batched |-> TRUE, value |-> value]

Min(a, b) == IF a <= b THEN a ELSE b

\* ---------------------------------------------------------------- messages
\* (command, data) as sent by pipe.send on the controller side.  `stale` is
\* history only: it is set once the round the command belongs to is over.
Command(tag, data) == [tag |-> tag, data |-> data, stale |-> FALSE]

\* (result, success) as sent back by the worker.
Reply(value, success, stale) == [value |-> value, success |-> success, stale |-> stale]

EmptyPipes == [i \in Workers |-> <<>>]

\* Every message in flight belongs to a round that is over.
MarkStale(q) ==
    [i \in Workers |-> [j \in 1 .. Len(q[i]) |-> [q[i][j] EXCEPT !.stale = TRUE]]]

\* Sum of f[i] over the workers.
SumOver(f) ==
    LET S[n \in 0 .. NumEnvs] == IF n = 0 THEN 0 ELSE S[n - 1] + f[n - 1]
    IN S[NumEnvs]

\* Messages on the pipes.
InFlight == SumOver([i \in Workers |-> Len(toWorker[i]) + Len(toCtrl[i])])

\* A round that sends n commands is started only while that keeps the
\* messages on the pipes within the bound of the model.
CanSend(n) == InFlight + n <= MaxInFlight

InitCoordinator ==
    /\ state = DEFAULT
    /\ expects_result = <<>>
    /\ toWorker = EmptyPipes
    /\ toCtrl = EmptyPipes
    /\ pc = "idle"
    /\ call = NoCall
    /\ k = 0
    /\ results = <<>>
    /\ successes = <<>>
    /\ sent = <<>>
    /\ staleRead = <<>>
    /\ ret = NoRet
    /\ writing = [i \in Workers |-> FALSE]
    /\ prev = NoPrev
    /\ alive = [i \in Workers |-> TRUE]
    /\ cache = EmptyCache

Init ==
    /\ InitCoordinator
    /\ envs = [i \in Workers |-> DefaultEnv]
    /\ given = NoIndex
    /\ swa = NoSwa

\* attrgetter(*names)(env): the attribute for one name, the tuple of the
\* attributes for more.
AttrGetterValue(chain, names) ==
    IF Len(names) = 1 THEN <<"value", GetAttr(chain, 1, names[1])>>
    ELSE <<"values", [j \in 1 .. Len(names) |-> GetAttr(chain, 1, names[j])]>>

\* setattrs(env, **names_and_values): setattr on the object itself (the
\* outermost wrapper) for every name.
SetAttrs(chain, names, value) ==
    [chain EXCEPT ![1] = [n \in Names |-> IF InNames(n, names) THEN value ELSE @[n]]]

\* ------------------------------------------------------------- worker loop
\* What the worker answers to one command: function(env) with success True,
\* or an error description with success False when executing it raised.
WorkerReply(i, cmd) ==
    LET u == cmd.data
        attr == GetAttr(envs[i], 1, UnitName(u))
        failed == Reply(<<"error", u>>, FALSE, cmd.stale)
    IN
    IF cmd.tag # "apply" THEN Reply(CallValue(u, EnvOf(i)), TRUE, cmd.stale)
    ELSE CASE UnitOp(u) = "func" ->
                IF CallRaises(u) THEN failed
                ELSE Reply(CallValue(u, EnvOf(i)), TRUE, cmd.stale)
           [] UnitOp(u) = "get" ->
                IF attr = Missing THEN failed
                ELSE IF attr = Method THEN Reply(<<"method", EnvOf(i)>>, TRUE, cmd.stale)
                ELSE Reply(<<"value", attr>>, TRUE, cmd.stale)
           [] UnitOp(u) = "has" ->
                Reply(<<"bool", IF attr # Missing THEN "True" ELSE "False">>, TRUE,
                      cmd.stale)
           [] UnitOp(u) = "call" ->
                IF attr = Method THEN Reply(<<"called", EnvOf(i)>>, TRUE, cmd.stale)
                ELSE failed
           [] UnitOp(u) = "set" ->
                Reply(<<"type", SetLayer(envs[i], 1, UnitName(u))>>, TRUE, cmd.stale)
           [] UnitOp(u) = "gets" ->
                IF \E j \in 1 .. Len(UnitNames(u)) :
                       GetAttr(envs[i], 1, UnitNames(u)[j]) = Missing
                THEN failed
                ELSE Reply(AttrGetterValue(envs[i], UnitNames(u)), TRUE, cmd.stale)
           [] UnitOp(u) = "sets" -> Reply(NoneValue, TRUE, cmd.stale)

\* The environment of worker i after it executed the command.
WorkerEnv(i, cmd) ==
    IF cmd.tag = "apply" /\ UnitOp(cmd.data) = "set"
    THEN SetWrapperAttribute(envs[i], UnitName(cmd.data), NewValue)
    ELSE IF cmd.tag = "apply" /\ UnitOp(cmd.data) = "sets"
    THEN SetAttrs(envs[i], UnitNames(cmd.data), NewValue)
    ELSE envs[i]

\* The commands whose result is an observation, which the worker writes into
\* its slot of the shared buffer before it replies.
WritesObservation(cmd) == cmd.tag \in {"reset", "step"}

\* Worker i has received a reset or step command and starts to write the
\* observation into slot i.
WorkerWrite(i) ==
    /\ alive[i]
    /\ toWorker[i] # <<>>
    /\ WritesObservation(Head(toWorker[i]))
    /\ ~writing[i]
    /\ writing' = [writing EXCEPT ![i] = TRUE]
    /\ UNCHANGED <<state, expects_result, toWorker, toCtrl, pc, call, k, results,
                   successes, sent, staleRead, ret, envs, prev, given, alive, cache, swa>>

\* Variant: a worker whose command raised leaves its loop.
WorkerAlive_UntilFailure(cmd, reply) == cmd.tag # "close" /\ reply.success

\* Whether the loop goes on after the command: it ends with Close only.
WorkerAlive(cmd, reply) == cmd.tag # "close"

\* One turn of worker i's loop: receive a command, execute it (for a reset
\* or step the slot is written by now), reply.
WorkerStep(i) ==
    /\ alive[i]
    /\ toWorker[i] # <<>>
    /\ WritesObservation(Head(toWorker[i])) => writing[i]
    /\ toWorker' = [toWorker EXCEPT ![i] = Tail(@)]
    /\ toCtrl' = [toCtrl EXCEPT ![i] = Append(@, WorkerReply(i, Head(toWorker[i])))]
    /\ writing' = [writing EXCEPT ![i] = FALSE]
    /\ envs' = [envs EXCEPT ![i] = WorkerEnv(i, Head(toWorker[i]))]
    /\ alive' = [alive EXCEPT ![i] =
                    WorkerAlive(Head(toWorker[i]), WorkerReply(i, Head(toWorker[i])))]
    /\ UNCHANGED <<state, expects_result, pc, call, k, results, successes, sent,
                   staleRead, ret, prev, given, cache, swa>>

\* ------------------------------------------------------------- apply_async
\* Variant: the check knows the inherited waiting states only.
AlreadyPending_OnlyInherited(st) == st \in {WAITING_RESET, WAITING_STEP}

\* Variant: the check looks for a pending apply only.
AlreadyPending_OnlyApply(st) == st = WAITING_APPLY

\* `self._state != AsyncState.DEFAULT`: a call is already pending.
AlreadyPending(st) == st # DEFAULT

\* `if callable(functions): functions = [functions] * self.num_envs`
Normalize(functions) ==
    IF functions.kind = "callable"
    THEN [i \in 1 .. NumEnvs |-> functions.v]
    ELSE functions.v

\* Variant: the length of the list is not checked.
LengthOk_Unchecked(fns) == TRUE

\* `assert len(functions) == self.num_envs`
LengthOk(fns) == Len(fns) = NumEnvs

\* Variant: the flags of the round are appended to those of the round before
\* (no clear()).
ExpectsOf_NoClear(fns) ==
    expects_result \o [i \in 1 .. Min(NumEnvs, Len(fns)) |-> Callable(fns[i])]

\* expects_result after the clear() and the loop over zip(parent_pipes, functions).
ExpectsOf(fns) == [i \in 1 .. Min(NumEnvs, Len(fns)) |-> Callable(fns[i])]

\* Variant: the command goes to every worker, the placeholder included.
SendApply_All(pipes, fns) ==
    [i \in Workers |->
        IF i + 1 <= Len(fns)
        THEN Append(pipes[i], Command("apply", fns[i + 1]))
        ELSE pipes[i]]

\* The pipes after the loop: (Commands.apply, function) sent where callable.
SendApply(pipes, fns) ==
    [i \in Workers |->
        IF i + 1 <= Len(fns) /\ Callable(fns[i + 1])
        THEN Append(pipes[i], Command("apply", fns[i + 1]))
        ELSE pipes[i]]

\* Number of commands the loop sends.
NumSent(fns) == Cardinality({i \in 1 .. Min(NumEnvs, Len(fns)) : Callable(fns[i])})

\* The state apply_async leaves once the commands are sent.
StateAfterApplyAsync == WAITING_APPLY

\* apply_async(functions), as a public call of its own.
ApplyAsync(functions) ==
    /\ pc = "idle"
    /\ IF AlreadyPending(state)
       THEN /\ ret' = Raise("apply_async", "AlreadyPendingCall", state)
            /\ UNCHANGED <<state, expects_result, toWorker, sent>>
       ELSE LET fns == Normalize(functions) IN
            IF ~LengthOk(fns)
            THEN /\ ret' = Raise("apply_async", "AssertionError", "none")
                 /\ UNCHANGED <<state, expects_result, toWorker, sent>>
            ELSE /\ CanSend(NumSent(fns))
                 /\ expects_result' = ExpectsOf(fns)
                 /\ toWorker' = SendApply(toWorker, fns)
                 /\ state' = StateAfterApplyAsync
                 /\ sent' = fns
                 /\ ret' = Return("apply_async", FALSE, NoneValue)
    /\ pc' = "done"
    /\ UNCHANGED <<toCtrl, call, k, results, successes, staleRead, writing, envs, prev, given, alive, cache, swa>>

\* -------------------------------------------------------------- apply_wait
\* Variant: the check rejects the wait only when nothing at all is pending.
NoAsyncCall_OnlyIdle(st) == st = DEFAULT

\* `self._state != ExtendedAsyncState.WAITING_APPLY`: no apply is pending.
NoAsyncCall(st) == st # WAITING_APPLY

\* Where the wait goes after its state check: _poll(None) is True at once, a
\* finite timeout polls the pipes until they are ready or the time is up.
AfterGuard(timeout) == IF timeout = "None" THEN "recv" ELSE "poll"

\* apply_wait(timeout), as a public call of its own: the state check, then
\* into _poll.
ApplyWait(timeout) ==
    /\ pc = "idle"
    /\ IF NoAsyncCall(state)
       THEN /\ ret' = Raise("apply_wait", "NoAsyncCall", WAITING_APPLY)
            /\ pc' = "done"
            /\ UNCHANGED call
       ELSE /\ pc' = AfterGuard(timeout)
            /\ call' = [op |-> "apply_wait", wait |-> WAITING_APPLY,
                        index |-> NoIndex, timeout |-> timeout]
            /\ UNCHANGED ret
    /\ UNCHANGED <<state, expects_result, toWorker, toCtrl, k, results,
                   successes, sent, staleRead, writing, envs, prev, given, alive, cache, swa>>

\* _poll(timeout) with a finite timeout succeeds when every parent pipe has
\* data to read before the time is up.
PollReady(pipes) == \A i \in Workers : pipes[i] # <<>>

\* Variant: the TimeoutError is raised without resetting the state.
StateAfterTimeout_Kept(st) == st

\* `self._state = AsyncState.DEFAULT` before the TimeoutError is raised.
StateAfterTimeout(st) == DEFAULT

\* _poll(timeout) returned True.
PollOk ==
    /\ pc = "poll"
    /\ PollReady(toCtrl)
    /\ pc' = "recv"
    /\ UNCHANGED <<state, expects_result, toWorker, toCtrl, call, k, results,
                   successes, sent, staleRead, ret, writing, envs, prev, given, alive, cache, swa>>

\* _poll(timeout) returned False: the time is up with a pipe not ready.
PollTimeout ==
    /\ pc = "poll"
    /\ ~PollReady(toCtrl)
    /\ state' = StateAfterTimeout(state)
    /\ ret' = Raise(call.op, "Timeout", "none")
    /\ toWorker' = MarkStale(toWorker)
    /\ toCtrl' = MarkStale(toCtrl)
    /\ pc' = "done"
    /\ UNCHANGED <<expects_result, call, k, results, successes, sent, staleRead,
                   writing, envs, prev, given, alive, cache, swa>>

\* Variant: the receive loop reads from every pipe, addressed or not.
NeedResult_All == [i \in 1 .. NumEnvs |-> TRUE]

\* The flags the receive loop zips the pipes with: expects_result for an
\* apply round, every pipe for a step or reset round.
NeedResult ==
    IF call.wait = WAITING_APPLY
    THEN expects_result
    ELSE [i \in 1 .. NumEnvs |-> TRUE]

\* Number of turns of `for pipe, need_result in zip(parent_pipes, expects_result)`.
LoopLen == Min(NumEnvs, Len(NeedResult))

\* One turn of the receive loop: pipe.recv() (blocking) where a result is
\* expected, (None, True) otherwise.
Recv ==
    /\ pc = "recv"
    /\ k < LoopLen
    /\ IF NeedResult[k + 1]
       THEN /\ toCtrl[k] # <<>>
            /\ results' = Append(results, Head(toCtrl[k]).value)
            /\ successes' = Append(successes, Head(toCtrl[k]).success)
            /\ staleRead' = Append(staleRead, Head(toCtrl[k]).stale)
            /\ toCtrl' = [toCtrl EXCEPT ![k] = Tail(@)]
       ELSE /\ results' = Append(results, NoneValue)
            /\ successes' = Append(successes, TRUE)
            /\ staleRead' = Append(staleRead, FALSE)
            /\ UNCHANGED toCtrl
    /\ k' = k + 1
    /\ UNCHANGED <<state, expects_result, toWorker, pc, call, sent, ret, writing, envs, prev, given, alive, cache, swa>>

\* _raise_if_errors(successes) raises unless all(successes).
RaiseIfErrors(succ) == \E i \in 1 .. Len(succ) : ~succ[i]

\* The state after `self._raise_if_errors(successes)` raised: the assignment
\* that follows it is not reached.
StateAfterError(st) == st

\* `self._state = AsyncState.DEFAULT`, reached when _raise_if_errors returned.
StateAfterWait(st) == DEFAULT

\* ---------------------------------------------------------------- apply_at
\* Python's `i in lst`.
InList(i, lst) == \E j \in 1 .. Len(lst) : lst[j] = i

\* `indices = [index] if isinstance(index, int) else index`
Indices(index) == IF index.kind = "int" THEN <<index.v>> ELSE index.v

\* Variant: a negative int counts from the last worker, as in list indexing.
Operations_Wrapped(operation, index) ==
    [i \in 1 .. NumEnvs |->
        IF \E j \in 1 .. Len(Indices(index)) :
               Indices(index)[j] \in {i - 1, i - 1 - NumEnvs}
        THEN operation ELSE None]

\* `[operation if i in indices else None for i in range(self.num_envs)]`
Operations(operation, index) ==
    [i \in 1 .. NumEnvs |->
        IF InList(i - 1, Indices(index)) THEN operation ELSE None]

\* `[result for i, result in enumerate(results) if i in indices]`
ResultsAt(res, indices) ==
    LET F[n \in 0 .. Len(res)] ==
            IF n = 0 THEN <<>>
            ELSE IF InList(n - 1, indices) THEN Append(F[n - 1], res[n])
            ELSE F[n - 1]
    IN F[Len(res)]

\* Python's list indexing results[i]: a negative i counts from the end, and
\* an i outside -len .. len-1 raises IndexError.
PyIndex(i, len) == IF i < 0 THEN i + len ELSE i
IndexInRange(i, len) == PyIndex(i, len) \in 0 .. (len - 1)

\* `results[index]` raises IndexError.
UnwrapRaises(res, index) == index.kind = "int" /\ ~IndexInRange(index.v, Len(res))

\* What apply_at returns from the results of its apply round.
Unwrap(res, index) ==
    IF index.kind = "int" THEN res[PyIndex(index.v, Len(res)) + 1]
    ELSE ResultsAt(res, index.v)

\* `isinstance(results, list) and all(map(ismethod, results))`
BatchMethods(r, islist) == islist /\ \A j \in 1 .. Len(r) : IsMethod(r[j])

\* Proxy.__getattribute__: what it makes of the results of its apply_at.
ProxyGetReturn(op, res, index) ==
    LET r == Unwrap(res, index) IN
    IF BatchMethods(r, index.kind = "list")
    THEN ReturnBatched(op, r)
    ELSE Return(op, index.kind = "list", r)

\* The calls that go through apply_at and return what it returns.
ApplyAtOps == {"apply_at", "proxy_set", "batched_call", "getattributes", "setattributes"}
\* The calls that end in Proxy.__getattribute__.
ProxyGetOps == {"proxy_get", "getattr"}

\* What the call in progress returns once its round is read.
ReturnOf(c, res) ==
    IF c.op \in ApplyAtOps \cup ProxyGetOps /\ UnwrapRaises(res, c.index)
    THEN Raise(c.op, "IndexError", "none")
    ELSE IF c.op \in ApplyAtOps
    THEN Return(c.op, c.index.kind = "list", Unwrap(res, c.index))
    ELSE IF c.op \in ProxyGetOps
    THEN ProxyGetReturn(c.op, res, c.index)
    ELSE Return(c.op, TRUE, res)

\* `all(env_has_attribute)` on the results of the hasattr_ round.
AllHaveAttribute(res) == \A i \in 1 .. Len(res) : Truthy(res[i])

\* A reset or step round returns the observations, which the controller
\* reads from the shared buffer once the replies are in.
ReadsObservations(c) == c.wait \in {WAITING_RESET, WAITING_STEP}

\* The end of a wait: _raise_if_errors(successes), then the state is reset
\* and the results are returned (after the observations are read from the
\* shared buffer, for a reset or step).
Finish ==
    /\ pc = "recv"
    /\ k = LoopLen
    /\ IF RaiseIfErrors(successes)
       THEN /\ ret' = Raise(call.op, "RemoteError", "none")
            /\ state' = StateAfterError(state)
            /\ pc' = "done"
       ELSE /\ state' = StateAfterWait(state)
            /\ IF ReadsObservations(call)
               THEN pc' = "read" /\ UNCHANGED ret
               ELSE IF call.op = "getattr_probe"
               THEN IF AllHaveAttribute(results)
                    THEN pc' = "forward" /\ UNCHANGED ret
                    ELSE /\ pc' = "done"
                         /\ ret' = Raise("getattr", "AttributeError", UnitName(sent[1]))
               ELSE pc' = "done" /\ ret' = ReturnOf(call, results)
    /\ toWorker' = MarkStale(toWorker)
    /\ toCtrl' = MarkStale(toCtrl)
    /\ UNCHANGED <<expects_result, call, k, results, successes, sent, staleRead,
                   writing, envs, prev, given, alive, cache, swa>>

\* The controller has read (copied) the observations out of the shared
\* buffer, every slot of it, and the wait returns.
ReadBuffer ==
    /\ pc = "read"
    /\ ret' = ReturnOf(call, results)
    /\ pc' = "done"
    /\ UNCHANGED <<state, expects_result, toWorker, toCtrl, call, k, results,
                   successes, sent, staleRead, writing, envs, prev, given, alive, cache, swa>>

\* apply_async(fns) followed by apply_wait(timeout) inside the public call
\* `op` (apply, apply_at with its index, or a call built on them).
ApplyRound(op, fns, timeout, index) ==
    /\ IF AlreadyPending(state)
       THEN /\ ret' = Raise(op, "AlreadyPendingCall", state)
            /\ pc' = "done"
            /\ UNCHANGED <<state, expects_result, toWorker, sent, call>>
       ELSE IF ~LengthOk(fns)
       THEN /\ ret' = Raise(op, "AssertionError", "none")
            /\ pc' = "done"
            /\ UNCHANGED <<state, expects_result, toWorker, sent, call>>
       ELSE /\ CanSend(NumSent(fns))
            /\ expects_result' = ExpectsOf(fns)
            /\ toWorker' = SendApply(toWorker, fns)
            /\ state' = StateAfterApplyAsync
            /\ sent' = fns
            /\ IF NoAsyncCall(StateAfterApplyAsync)
               THEN /\ ret' = Raise(op, "NoAsyncCall", WAITING_APPLY)
                    /\ pc' = "done"
                    /\ UNCHANGED call
               ELSE /\ pc' = AfterGuard(timeout)
                    /\ call' = [op |-> op, wait |-> WAITING_APPLY, index |-> index,
                                timeout |-> timeout]
                    /\ UNCHANGED ret
    /\ UNCHANGED <<toCtrl, writing, envs>>

\* The round as a public call of the caller.
ApplyCall(op, fns, timeout, index) ==
    /\ pc = "idle"
    /\ ApplyRound(op, fns, timeout, index)
    /\ UNCHANGED <<k, results, successes, staleRead, prev, given, alive, cache, swa>>

\* apply(functions, timeout)
Apply(functions, timeout) ==
    ApplyCall("apply", Normalize(functions), timeout, NoIndex)

\* apply_at(operation, index)
ApplyAt(operation, index) ==
    ApplyCall("apply_at", Operations(operation, index), "None", index)

\* ---------------------------------------------------- set_wrapper_attribute
\* set_wrapper_attribute followed turn by turn of its while loop, on chains
\* whose innermost object may itself have an `env`: object j wraps object
\* j + 1, and the last object wraps object `back` (a cycle) or, with back = 0,
\* nothing (the unwrapped environment).
NextOf(g, j) == IF j < Len(g.layers) THEN j + 1 ELSE g.back

\* hasattr(env, "env") for object j.
HasEnvAt(g, j) == NextOf(g, j) # 0

\* The objects a lookup that starts at object j passes through.
Reach(g, j) ==
    (j .. Len(g.layers)) \cup (IF g.back # 0 THEN g.back .. Len(g.layers) ELSE {})

\* hasattr(env, name) for object j: the object holds the name itself, or it
\* is a gym.Wrapper and passes the lookup of a public name on to the object
\* it wraps.  Around a cycle none of whose objects holds the name the lookup
\* never ends: RecursionError, which hasattr does not catch.
HasAttrAt(g, j, name) ==
    IF g.layers[j][name] # Missing THEN "True"
    ELSE IF ~Delegates(name) \/ ~HasEnvAt(g, j) THEN "False"
    ELSE IF \E q \in Reach(g, j) : g.layers[q][name] # Missing THEN "True"
    ELSE IF g.back = 0 THEN "False"
    ELSE "RecursionError"

\* One evaluation of the condition of the while loop, and the turn of the
\* loop when it holds (lines 317-319).
SwaLoop ==
    /\ swa.at = "loop"
    /\ swa' =
         IF HasAttrAt(swa, swa.env, swa.name) = "RecursionError"
         THEN [swa EXCEPT !.at = "raised"]
         ELSE IF /\ HasAttrAt(swa, swa.env, swa.name) = "False"
                 /\ HasEnvAt(swa, swa.env)
                 /\ ~InList(swa.env, swa.wrappers)
         THEN [swa EXCEPT !.wrappers = Append(@, swa.env),
                          !.env = NextOf(swa, swa.env)]
         ELSE [swa EXCEPT !.at = "set"]
    /\ UNCHANGED <<state, expects_result, toWorker, toCtrl, pc, call, k, results,
                   successes, sent, staleRead, ret, writing, envs, prev, given, alive,
                   cache>>

\* `setattr(env, name, value)` and the return (lines 320-321).
SwaSet ==
    /\ swa.at = "set"
    /\ swa' = [swa EXCEPT !.layers[swa.env][swa.name] = NewValue, !.at = "done"]
    /\ UNCHANGED <<state, expects_result, toWorker, toCtrl, pc, call, k, results,
                   successes, sent, staleRead, ret, writing, envs, prev, given, alive,
                   cache>>

\* What a layer may hold under each name: nothing or a plain value.
LayerValues == {Layer(a, p) : a, p \in {Missing, "v0"}}

\* The chains set_wrapper_attribute is called on: up to MaxLayers objects,
\* acyclic or closed into a cycle at any of them.
SwaCalls ==
    {[layers |-> l, back |-> b, name |-> n, env |-> 1, wrappers |-> <<>>,
      at |-> "loop", was |-> l] :
        l \in UNION {[1 .. m -> LayerValues] : m \in 1 .. MaxLayers},
        b \in 0 .. MaxLayers, n \in Names}

InitSetAttr ==
    /\ InitCoordinator
    /\ envs = [i \in Workers |-> DefaultEnv]
    /\ given = NoIndex
    /\ swa \in {c \in SwaCalls : c.back <= Len(c.layers)}

NextSetAttr ==
    \/ SwaLoop
    \/ SwaSet

SpecSetAttr == InitSetAttr /\ [][NextSetAttr]_vars

\* ------------------------------------------------------- attribute proxies
\* A bound of a slice: None, or an integer.
NoBound == [some |-> FALSE, n |-> 0]
Bound(n) == [some |-> TRUE, n |-> n]

\* The indices given to coordinator[index]: an int, a slice, a list of
\* worker indices (any order, repeats allowed) and a boolean mask (a numpy
\* array of dtype bool) of length N.
SliceBounds == {NoBound} \cup {Bound(n) : n \in {-1, 0, 1, NumEnvs}}
SliceSteps == {NoBound} \cup {Bound(n) : n \in {-1, 2}}
IndexForms ==
    [kind : {"int"}, v : Workers]
    \cup [kind : {"slice"}, v : [start : SliceBounds, stop : SliceBounds, step : SliceSteps]]
    \cup [kind : {"list"}, v : UNION {[1 .. n -> Workers] : n \in 1 .. 2}]
    \cup [kind : {"mask"}, v : [1 .. NumEnvs -> BOOLEAN]]

\* The indices attributes are written at: one worker, or all of them.
SetIndexForms ==
    [kind : {"int"}, v : Workers]
    \cup [kind : {"slice"}, v : [start : {NoBound}, stop : {NoBound}, step : {NoBound}]]

\* Python's slice.indices(len): a bound of the slice made an index.
AdjustBound(b, len, step, default) ==
    IF ~b.some THEN default
    ELSE IF b.n < 0
         THEN (IF b.n + len < 0 THEN (IF step < 0 THEN -1 ELSE 0) ELSE b.n + len)
         ELSE (IF b.n >= len THEN (IF step < 0 THEN len - 1 ELSE len) ELSE b.n)

\* `tuple(range(self.num_envs))[index]` for a slice.
RangeSlice(sl, len) ==
    LET step == IF sl.step.some THEN sl.step.n ELSE 1
        start == AdjustBound(sl.start, len, step, IF step < 0 THEN len - 1 ELSE 0)
        stop == AdjustBound(sl.stop, len, step, IF step < 0 THEN -1 ELSE len)
        count == IF step < 0
                 THEN (IF stop < start THEN ((start - stop - 1) \div (-step)) + 1 ELSE 0)
                 ELSE (IF start < stop THEN ((stop - start - 1) \div step) + 1 ELSE 0)
    IN [j \in 1 .. count |-> start + (j - 1) * step]

\* `np.arange(self.num_envs)[index]` for a boolean mask.
MaskIndices(mask) ==
    LET F[n \in 0 .. Len(mask)] ==
            IF n = 0 THEN <<>>
            ELSE IF mask[n] THEN Append(F[n - 1], n - 1) ELSE F[n - 1]
    IN F[Len(mask)]

\* Variant: a list is made a sorted tuple of distinct indices.
GetItem_Sorted(index) ==
    IF index.kind = "int" THEN index
    ELSE IF index.kind = "slice"
    THEN [kind |-> "list", v |-> RangeSlice(index.v, NumEnvs)]
    ELSE IF index.kind = "mask"
    THEN [kind |-> "list", v |-> MaskIndices(index.v)]
    ELSE [kind |-> "list",
          v |-> MaskIndices([i \in 1 .. NumEnvs |-> InList(i - 1, index.v)])]

\* __getitem__: the index the Proxy is bound to, an int or a tuple.
GetItem(index) ==
    IF index.kind = "int" THEN index
    ELSE IF index.kind = "slice"
    THEN [kind |-> "list", v |-> RangeSlice(index.v, NumEnvs)]
    ELSE IF index.kind = "mask"
    THEN [kind |-> "list", v |-> MaskIndices(index.v)]
    ELSE [kind |-> "list", v |-> index.v]

\* coordinator[index].name: Proxy.__getattribute__(name).
ProxyGet(name, index) ==
    /\ pc = "idle"
    /\ ApplyRound("proxy_get", Operations(AttrGetter(name), GetItem(index)), "None",
                  GetItem(index))
    /\ UNCHANGED <<k, results, successes, staleRead, prev, given, alive, cache, swa>>

\* coordinator[index].name = value: Proxy.__setattr__(name, value).
ProxySet(name, value, index) ==
    /\ pc = "idle"
    /\ ApplyRound("proxy_set", Operations(AttrSetter(name, value), GetItem(index)),
                  "None", GetItem(index))
    /\ UNCHANGED <<k, results, successes, staleRead, prev, given, alive, cache, swa>>

\* coordinator[index].getattributes(*names): attrgetter(*names) is built
\* first (it takes at least one name: TypeError), then one apply_at round.
GetAttributes(names, index) ==
    /\ pc = "idle"
    /\ IF names = <<>>
       THEN /\ ret' = Raise("getattributes", "TypeError", "none")
            /\ pc' = "done"
            /\ UNCHANGED <<state, expects_result, toWorker, toCtrl, sent, call, writing,
                           envs>>
       ELSE ApplyRound("getattributes", Operations(BulkGetter(names), GetItem(index)),
                       "None", GetItem(index))
    /\ UNCHANGED <<k, results, successes, staleRead, prev, given, alive, cache, swa>>

\* coordinator[index].setattributes(**names_and_values): one apply_at round.
SetAttributes(names, index) ==
    /\ pc = "idle"
    /\ ApplyRound("setattributes", Operations(BulkSetter(names), GetItem(index)),
                  "None", GetItem(index))
    /\ UNCHANGED <<k, results, successes, staleRead, prev, given, alive, cache, swa>>

\* The BatchedMethod the call before returned is called: one apply_at round
\* that calls the method on each worker the proxy is bound to.
BatchedCall ==
    /\ pc = "idle"
    /\ prev.kind = "batched"
    /\ ApplyRound("batched_call", Operations(MethodCaller(prev.name), prev.index),
                  "None", prev.index)
    /\ UNCHANGED <<k, results, successes, staleRead, prev, given, alive, cache, swa>>

\* The indices proxies are looked up with: ints, one-element lists and
\* boolean masks (a mask with one true entry and the list of that index
\* resolve to the same tuple).
LookupForms ==
    [kind : {"int"}, v : Workers]
    \cup [kind : {"list"}, v : [1 .. 1 -> Workers]]
    \cup [kind : {"mask"}, v : [1 .. NumEnvs -> BOOLEAN]]

\* Two arguments of __get_env_proxy are the same cache key (an int and a
\* tuple never are).
SameKey(a, b) == a.kind = b.kind /\ a.v = b.v

\* The cache holds a Proxy for the key.
Cached(keys, key) == \E j \in 1 .. Len(keys) : SameKey(keys[j], key)

\* The key becomes the most recently used one.
Touch(keys, key) ==
    LET Other(x) == ~SameKey(x, key)
    IN Append(SelectSeq(keys, Other), key)

\* Variant: nothing is ever dropped from the cache (maxsize=None).
LruEvict_Never(keys) == keys

\* lru_cache drops the least recently used entry once it holds more than
\* maxsize.
LruEvict(keys) == IF Len(keys) > LruMaxSize THEN Tail(keys) ELSE keys

\* coordinator[index], the lookup alone: __getitem__ resolves the index and
\* the cached __get_env_proxy returns the Proxy it holds for that key or
\* makes a new one.
Lookup(index) ==
    /\ pc = "idle"
    /\ cache' = [keys |-> LruEvict(Touch(cache.keys, GetItem(index))),
                 made |-> ~Cached(cache.keys, GetItem(index))]
    /\ UNCHANGED <<state, expects_result, toWorker, toCtrl, pc, call, k, results,
                   successes, sent, staleRead, ret, writing, envs, prev, given, alive,
                   swa>>

\* The index of `self[:]`.
FullIndex ==
    GetItem([kind |-> "slice", v |-> [start |-> NoBound, stop |-> NoBound, step |-> NoBound]])

\* coordinator.name for a name the coordinator does not define:
\* __getattr__(name), first `self.apply(partial(hasattr_, name=name))`.
GetAttrProbe(name) ==
    /\ pc = "idle"
    /\ ApplyRound("getattr_probe", Normalize([kind |-> "callable", v |-> HasAttrProbe(name)]),
                  "None", NoIndex)
    /\ UNCHANGED <<k, results, successes, staleRead, prev, given, alive, cache, swa>>

\* __getattr__, every worker having reported the attribute:
\* `getattr(self[:], name)`.
GetAttrForward ==
    /\ pc = "forward"
    /\ ApplyRound("getattr", Operations(AttrGetter(UnitName(sent[1])), FullIndex),
                  "None", FullIndex)
    /\ k' = 0
    /\ results' = <<>>
    /\ successes' = <<>>
    /\ staleRead' = <<>>
    /\ UNCHANGED <<prev, given, alive, cache, swa>>

\* ------------------------------------------- reset / step (inherited calls)
\* reset_async / step_async: one command to every worker.
BaseAsync(op, tag, waiting) ==
    /\ pc = "idle"
    /\ IF AlreadyPending(state)
       THEN /\ ret' = Raise(op, "AlreadyPendingCall", state)
            /\ UNCHANGED <<state, toWorker, sent>>
       ELSE /\ CanSend(NumEnvs)
            /\ toWorker' = [i \in Workers |-> Append(toWorker[i], Command(tag, tag))]
            /\ state' = waiting
            /\ sent' = [i \in 1 .. NumEnvs |-> tag]
            /\ ret' = Return(op, FALSE, NoneValue)
    /\ pc' = "done"
    /\ UNCHANGED <<expects_result, toCtrl, call, k, results, successes, staleRead,
                   writing, envs, prev, given, alive, cache, swa>>

\* reset_wait / step_wait: the state check, then into _poll.
BaseWait(op, waiting, timeout) ==
    /\ pc = "idle"
    /\ IF state # waiting
       THEN /\ ret' = Raise(op, "NoAsyncCall", waiting)
            /\ pc' = "done"
            /\ UNCHANGED call
       ELSE /\ pc' = AfterGuard(timeout)
            /\ call' = [op |-> op, wait |-> waiting, index |-> NoIndex,
                        timeout |-> timeout]
            /\ UNCHANGED ret
    /\ UNCHANGED <<state, expects_result, toWorker, toCtrl, k, results,
                   successes, sent, staleRead, writing, envs, prev, given, alive, cache, swa>>

ResetAsync == BaseAsync("reset_async", "reset", WAITING_RESET)
ResetWait(timeout) == BaseWait("reset_wait", WAITING_RESET, timeout)
StepAsync == BaseAsync("step_async", "step", WAITING_STEP)
StepWait(timeout) == BaseWait("step_wait", WAITING_STEP, timeout)

\* close(), no call pending: Close goes to every worker, and the
\* coordinator takes no further call.
Close ==
    /\ pc = "idle"
    /\ state = DEFAULT
    /\ CanSend(NumEnvs)
    /\ toWorker' = [i \in Workers |-> Append(toWorker[i], Command("close", "close"))]
    /\ pc' = "closed"
    /\ UNCHANGED <<state, expects_result, toCtrl, call, k, results, successes, sent,
                   staleRead, ret, writing, envs, prev, given, alive, cache, swa>>

\* ------------------------------------------------------------------ caller
\* The calls that start a round and leave it pending.
AsyncOps == {"apply_async", "reset_async", "step_async"}

\* No call is pending any more: what the latest *_async sent is history.
RoundOver(st) == st = DEFAULT

\* What is remembered of the call that returned r: an attribute written at
\* one index, or the BatchedMethod returned.
PrevOf(c, r, units) ==
    IF r.kind = "return" /\ r.op = "proxy_set" /\ c.index.kind = "int"
    THEN [kind |-> "set", name |-> UnitName(units[c.index.v + 1]), index |-> c.index]
    ELSE IF r.kind = "return" /\ r.batched /\ c.index.v # <<>>
    THEN [kind |-> "batched", name |-> UnitName(units[c.index.v[1] + 1]), index |-> c.index]
    ELSE IF r.kind = "return" /\ r.op = "setattributes" /\ Indices(c.index) # <<>>
    THEN [kind |-> "bulk", name |-> units[Indices(c.index)[1] + 1], index |-> c.index]
    ELSE NoPrev

\* The caller takes the outcome of the call and goes on; the locals of the
\* call are gone.
Continue ==
    /\ pc = "done"
    /\ pc' = "idle"
    /\ ret' = NoRet
    /\ call' = NoCall
    /\ k' = 0
    /\ results' = <<>>
    /\ successes' = <<>>
    /\ staleRead' = <<>>
    /\ sent' = IF RoundOver(state) THEN <<>> ELSE sent
    /\ prev' = PrevOf(call, ret, sent)
    /\ UNCHANGED <<state, expects_result, toWorker, toCtrl, writing, envs, given, alive, cache, swa>>

\* ------------------------------------------------------------ specification
\* The arguments the calls are tried with.  A call made while another one is
\* pending is rejected before it looks at its arguments, so one argument
\* stands for all of them there.
FunctionInputs ==
    IF AlreadyPending(state) THEN {[kind |-> "callable", v |-> "f"]} ELSE FunctionArgs

TimeoutInputs == IF AlreadyPending(state) THEN {"None"} ELSE Timeouts

OperationInputs == IF AlreadyPending(state) THEN {"f"} ELSE Funcs

IndexInputs == IF AlreadyPending(state) THEN {[kind |-> "int", v |-> 0]} ELSE IndexArgs

Next ==
    \/ \E functions \in FunctionInputs : ApplyAsync(functions)
    \/ \E timeout \in Timeouts : ApplyWait(timeout)
    \/ \E functions \in FunctionInputs, timeout \in TimeoutInputs :
            Apply(functions, timeout)
    \/ \E operation \in OperationInputs, index \in IndexInputs :
            ApplyAt(operation, index)
    \/ ResetAsync
    \/ \E timeout \in Timeouts : ResetWait(timeout)
    \/ StepAsync
    \/ \E timeout \in Timeouts : StepWait(timeout)
    \/ PollOk
    \/ PollTimeout
    \/ Recv
    \/ Finish
    \/ ReadBuffer
    \/ Continue
    \/ \E i \in Workers : WorkerWrite(i)
    \/ \E i \in Workers : WorkerStep(i)

Spec == Init /\ [][Next]_vars

\* The calls of the apply family and what runs them.
NextApply ==
    \/ \E functions \in FunctionInputs : ApplyAsync(functions)
    \/ \E timeout \in Timeouts : ApplyWait(timeout)
    \/ \E functions \in FunctionInputs, timeout \in TimeoutInputs :
            Apply(functions, timeout)
    \/ \E operation \in OperationInputs, index \in IndexInputs :
            ApplyAt(operation, index)
    \/ PollOk
    \/ PollTimeout
    \/ Recv
    \/ Finish
    \/ Continue
    \/ \E i \in Workers : WorkerStep(i)

\* The runs in which no wait times out: every call of the coordinator, with
\* _poll never giving up.
NextNoTimeout ==
    \/ \E functions \in FunctionInputs : ApplyAsync(functions)
    \/ \E timeout \in Timeouts : ApplyWait(timeout)
    \/ \E functions \in FunctionInputs, timeout \in TimeoutInputs :
            Apply(functions, timeout)
    \/ \E operation \in OperationInputs, index \in IndexInputs :
            ApplyAt(operation, index)
    \/ ResetAsync
    \/ \E timeout \in Timeouts : ResetWait(timeout)
    \/ StepAsync
    \/ \E timeout \in Timeouts : StepWait(timeout)
    \/ PollOk
    \/ Recv
    \/ Finish
    \/ ReadBuffer
    \/ Continue
    \/ \E i \in Workers : WorkerWrite(i)
    \/ \E i \in Workers : WorkerStep(i)

SpecNoTimeout == Init /\ [][NextNoTimeout]_vars

\* Lookups of proxies, one after the other.
NextCache == \E index \in LookupForms : Lookup(index)

SpecCache == Init /\ [][NextCache]_vars

\* The apply family up to the shutdown of the coordinator.
NextClose ==
    \/ \E functions \in FunctionInputs : ApplyAsync(functions)
    \/ \E timeout \in Timeouts : ApplyWait(timeout)
    \/ \E functions \in FunctionInputs, timeout \in TimeoutInputs :
            Apply(functions, timeout)
    \/ \E operation \in OperationInputs, index \in IndexInputs :
            ApplyAt(operation, index)
    \/ Close
    \/ PollOk
    \/ PollTimeout
    \/ Recv
    \/ Finish
    \/ Continue
    \/ \E i \in Workers : WorkerStep(i)

SpecClose == Init /\ [][NextClose]_vars

\* Lists that give some workers the function f and the others None.
PartialLists ==
    IF AlreadyPending(state) THEN {[kind |-> "list", v |-> [j \in 1 .. NumEnvs |-> "f"]]}
    ELSE [kind : {"list"}, v : [1 .. NumEnvs -> {"f", None}]]

\* apply_at with an int index, in and out of the range of the workers, among
\* apply rounds that may time out.
NextApplyAt ==
    \/ \E operation \in OperationInputs, index \in IntIndexArgs :
            ApplyAt(operation, index)
    \/ \E functions \in PartialLists : ApplyAsync(functions)
    \/ \E timeout \in Timeouts : ApplyWait(timeout)
    \/ PollOk
    \/ PollTimeout
    \/ Recv
    \/ Finish
    \/ Continue
    \/ \E i \in Workers : WorkerStep(i)

SpecApplyAt == Init /\ [][NextApplyAt]_vars

\* The environments the workers may be constructed with: unwrapped with `a`
\* a method, unwrapped with `a` a plain value, unwrapped without `a`, and a
\* wrapper around an environment with the method `a`.
Chains ==
    {<<Layer(Method, Missing)>>,
     <<Layer("v0", Missing)>>,
     <<Layer(Missing, Missing)>>,
     <<Layer(Missing, Missing), Layer(Method, Missing)>>}

\* The same environment in every worker, or one worker that differs from
\* the others.
EnvConfigs ==
    {[i \in Workers |-> c] : c \in Chains}
    \cup {[i \in Workers |-> IF i = w THEN c ELSE DefaultEnv] :
             w \in {0, NumEnvs - 1}, c \in Chains}

InitProxy ==
    /\ InitCoordinator
    /\ envs \in EnvConfigs
    /\ given = NoIndex
    /\ swa = NoSwa

\* The bulk operations of the proxies, at an int or a list of indices.
NextBulk ==
    \/ \E names \in BulkNames, index \in IndexArgs : GetAttributes(names, index)
    \/ \E names \in BulkNames, index \in IndexArgs : SetAttributes(names, index)
    \/ Recv
    \/ Finish
    \/ Continue
    \/ \E i \in Workers : WorkerStep(i)

SpecBulk == InitProxy /\ [][NextBulk]_vars

\* The attribute proxies: reads, writes and batched method calls.
NextProxy ==
    \/ \E name \in Names, index \in IndexForms : ProxyGet(name, index)
    \/ \E name \in Names, index \in SetIndexForms : ProxySet(name, NewValue, index)
    \/ BatchedCall
    \/ Recv
    \/ Finish
    \/ Continue
    \/ \E i \in Workers : WorkerStep(i)

SpecProxy == InitProxy /\ [][NextProxy]_vars

\* The caller holds one proxy, coordinator[given], made from any of the
\* index forms, and reads and writes attributes through it.
InitGetItem ==
    /\ InitCoordinator
    /\ envs = [i \in Workers |-> DefaultEnv]
    /\ given \in IndexForms
    /\ swa = NoSwa

NextGetItem ==
    \/ \E name \in Names : ProxyGet(name, given)
    \/ \E name \in Names : ProxySet(name, NewValue, given)
    \/ Recv
    \/ Finish
    \/ Continue
    \/ \E i \in Workers : WorkerStep(i)

SpecGetItem == InitGetItem /\ [][NextGetItem]_vars

\* __getattr__ of the coordinator, and apply rounds that may time out.
NextGetAttr ==
    \/ \E name \in Names : GetAttrProbe(name)
    \/ GetAttrForward
    \/ \E functions \in PartialLists : ApplyAsync(functions)
    \/ \E timeout \in Timeouts : ApplyWait(timeout)
    \/ PollOk
    \/ PollTimeout
    \/ Recv
    \/ Finish
    \/ Continue
    \/ \E i \in Workers : WorkerStep(i)

SpecGetAttr == InitProxy /\ [][NextGetAttr]_vars

\* The workers are processes of their own and the controller is a running
\* thread: a worker with a command to execute goes on to execute it and to
\* reply, a receive loop whose pipe has data goes on, and so does the end of
\* the wait.  (The caller is not obliged to make the next call, and _poll may
\* time out.)
Fairness ==
    /\ \A i \in Workers : WF_vars(WorkerStep(i))
    /\ WF_vars(Recv)
    /\ WF_vars(Finish)

\* The apply family under fair scheduling.
FairSpec == Init /\ [][NextApply]_vars /\ Fairness

\* ================================================================== claims
\* What an apply round that sent fns returns when every reply is the reply
\* to the command of that round: function(env) per addressed worker, None
\* for the others.
Expected(fns) ==
    [i \in 1 .. Len(fns) |->
        IF Callable(fns[i]) THEN CallValue(fns[i], EnvOf(i - 1)) ELSE NoneValue]

\* A call of the apply family has just returned or raised.
ApplyDone == pc = "done" /\ call.wait = WAITING_APPLY

\* Worker i (0-based) is addressed by the apply round in progress.
Addressed(i) == i + 1 <= Len(expects_result) /\ expects_result[i + 1]

\* C1: when apply_wait raises because an addressed worker replied with
\* success False, the call state is Idle (DEFAULT) afterwards.
C1_IdleAfterRemoteFailure ==
    (ApplyDone /\ ret.exc = "RemoteError") => state = DEFAULT

\* C2: a call of apply_async, step_async or reset_async made while the call
\* state is not Idle raises AlreadyPendingCall naming the pending call, sends
\* nothing and leaves the call state, expects_result and the pending round
\* as they were.
C2_AlreadyPendingRejects ==
    [][(pc = "idle" /\ pc' = "done" /\ state # DEFAULT /\ ret'.op \in AsyncOps)
        => /\ ret'.kind = "raise"
           /\ ret'.exc = "AlreadyPendingCall"
           /\ ret'.named = state
           /\ UNCHANGED <<state, expects_result, toWorker, toCtrl, sent>>]_vars

C2_Witness ==
    /\ pc = "done"
    /\ ret.op = "apply_async"
    /\ ret.exc = "AlreadyPendingCall"
    /\ ret.named = WAITING_STEP
    /\ state = WAITING_STEP
    /\ \E i \in Workers : toWorker[i] # <<>>

\* The step is a call of apply_wait.
IsApplyWaitCall ==
    /\ pc = "idle"
    /\ \/ pc' = "done" /\ ret'.op = "apply_wait"
       \/ pc' \in {"poll", "recv"} /\ call'.op = "apply_wait"

\* C3: apply_wait called while the call state is not WAITING_APPLY raises
\* NoAsyncCall, reads no reply and leaves the call state unchanged.
C3_NoAsyncCallRejects ==
    [][(IsApplyWaitCall /\ state # WAITING_APPLY)
        => /\ pc' = "done"
           /\ ret'.kind = "raise"
           /\ ret'.exc = "NoAsyncCall"
           /\ UNCHANGED <<state, expects_result, toWorker, toCtrl, results,
                          successes>>]_vars

C3_Witness ==
    /\ pc = "done"
    /\ ret.op = "apply_wait"
    /\ ret.exc = "NoAsyncCall"
    /\ state = WAITING_STEP
    /\ \A i \in Workers : toCtrl[i] # <<>>

\* C4: apply(f) with one unit of work f (one that does not raise) returns,
\* unless it times out, the list of length N whose entry i is f applied to
\* worker i's environment.
C4_BroadcastReturnsResults ==
    (/\ ApplyDone
     /\ call.op = "apply"
     /\ ret.exc # "Timeout"
     /\ sent = [i \in 1 .. NumEnvs |-> "f"])
        => /\ ret.kind = "return"
           /\ Len(ret.value) = NumEnvs
           /\ ret.value = Expected(sent)

\* C5: apply given a list of N entries addresses exactly the workers whose
\* entry is callable, and what it returns has length N with that worker's
\* result where addressed (so no unit of work that raised) and None where
\* not.
C5_ListReturnsResults ==
    (ApplyDone /\ call.op = "apply" /\ ret.kind = "return")
        => /\ expects_result = [i \in 1 .. NumEnvs |-> Callable(sent[i])]
           /\ \A i \in 1 .. NumEnvs : ~CallRaises(sent[i])
           /\ Len(ret.value) = NumEnvs
           /\ ret.value = Expected(sent)

\* C6: apply_at(f, idx) with a list idx returns one entry per element of
\* idx, in the order of idx: entry j is f applied to the environment of
\* worker idx[j].
C6_ApplyAtListOrder ==
    (/\ ApplyDone
     /\ call.op = "apply_at"
     /\ call.index.kind = "list"
     /\ ret.kind = "return")
        => ret.value =
              [j \in 1 .. Len(call.index.v) |->
                  CallValue(sent[call.index.v[j] + 1], EnvOf(call.index.v[j]))]

\* C7: apply_at(f, i) with an int i addresses worker i only and returns the
\* single value f(env_i), not a list.
C7_ApplyAtInt ==
    (/\ ApplyDone
     /\ call.op = "apply_at"
     /\ call.index.kind = "int"
     /\ sent[call.index.v + 1] = "f")
        => /\ expects_result = [i \in 1 .. NumEnvs |-> i = call.index.v + 1]
           /\ ret.kind = "return"
           /\ ~ret.islist
           /\ ret.value = CallValue("f", EnvOf(call.index.v))

\* C8: no round reads a reply that belongs to an earlier round (one that
\* timed out): each reply read is the reply to the command of this round.
C8_NoStaleReply == \A j \in 1 .. Len(staleRead) : ~staleRead[j]

\* C9: when the poll of an apply_wait with a finite timeout ends with an
\* addressed worker that has not replied, apply_wait raises Timeout and the
\* call state is Idle (DEFAULT) afterwards.
C9_TimeoutLeavesIdle ==
    [][(/\ pc = "poll"
        /\ pc' # "poll"
        /\ call.wait = WAITING_APPLY
        /\ \E i \in Workers : Addressed(i) /\ toCtrl[i] = <<>>)
        => /\ pc' = "done"
           /\ ret'.kind = "raise"
           /\ ret'.exc = "Timeout"
           /\ state' = DEFAULT]_vars

C9_Witness ==
    /\ ApplyDone
    /\ ret.exc = "Timeout"
    /\ state = DEFAULT
    /\ \E i \in Workers : Addressed(i) /\ toCtrl[i] = <<>>
    /\ \E i \in Workers : Addressed(i) /\ toCtrl[i] # <<>>

\* C10: in an apply round in which an addressed worker's unit of work
\* raises, apply_wait (unless it times out) raises, after one reply was read
\* for every addressed worker and with no reply of the round left unread,
\* the slots of the workers that succeeded holding function(env).
C10_RaisesAfterAllReplies ==
    (/\ ApplyDone
     /\ ret.exc # "Timeout"
     /\ Len(sent) = NumEnvs
     /\ \E i \in 1 .. NumEnvs : Callable(sent[i]) /\ CallRaises(sent[i]))
        => /\ ret.exc = "RemoteError"
           /\ Len(results) = NumEnvs
           /\ \A i \in Workers : toWorker[i] = <<>> /\ toCtrl[i] = <<>>
           /\ \A i \in 1 .. NumEnvs :
                 (Callable(sent[i]) /\ ~CallRaises(sent[i]))
                    => results[i] = Expected(sent)[i]

\* C11: slot i of the shared observation buffer is never read by the
\* controller while worker i is writing it, and the controller reads it only
\* after it has received worker i's reply for the round in progress (not a
\* reply left over from an earlier round).
C11_SlotExclusive ==
    pc = "read" => \A i \in Workers : ~writing[i] /\ ~staleRead[i + 1]

\* C16: when the poll of an apply_wait with a finite timeout ends in a round
\* with unaddressed workers in which every addressed worker has replied,
\* apply_wait does not time out: it goes on to read the replies.
C16_PollAddressedOnly ==
    [][(/\ pc = "poll"
        /\ pc' # "poll"
        /\ call.wait = WAITING_APPLY
        /\ \E i \in Workers : ~Addressed(i)
        /\ \E i \in Workers : Addressed(i)
        /\ \A i \in Workers : Addressed(i) => toCtrl[i] # <<>>)
        => pc' = "recv"]_vars

\* A message of the round in progress is on worker i's pipe (its command, or
\* its reply not yet read).
Fresh(i) ==
    \/ \E j \in 1 .. Len(toWorker[i]) : ~toWorker[i][j].stale
    \/ \E j \in 1 .. Len(toCtrl[i]) : ~toCtrl[i][j].stale

\* C17: while the call state is WAITING_APPLY, expects_result has length N
\* and is true exactly at the workers the most recent apply_async sent a
\* command to (those given a callable), whatever earlier rounds recorded:
\* a command of the round is on the pipe of flagged workers only, and right
\* after apply_async on the pipe of every flagged worker.
C17_ExpectsResultOfRound ==
    state = WAITING_APPLY
        => /\ Len(sent) = NumEnvs
           /\ expects_result = [i \in 1 .. NumEnvs |-> Callable(sent[i])]
           /\ \A i \in Workers : Fresh(i) => expects_result[i + 1]
           /\ (pc = "done" /\ ret.op = "apply_async" /\ ret.kind = "return")
                 => \A i \in Workers : expects_result[i + 1] => Fresh(i)

\* An earlier round recorded other flags than the round now pending.
C17_Witness ==
    /\ state = WAITING_APPLY
    /\ pc = "recv"
    /\ expects_result = [i \in 1 .. NumEnvs |-> i = NumEnvs]
    /\ \E i \in Workers : i + 1 # NumEnvs /\ toCtrl[i] # <<>>

\* An apply round has been started and its wait, with timeout None, is at the
\* top of the receive loop: every addressed worker has the command of the
\* round, or its reply to it, on its pipe.
C19_RoundWaiting ==
    /\ pc = "recv"
    /\ k = 0
    /\ call.wait = WAITING_APPLY
    /\ call.timeout = "None"
    /\ \A i \in Workers : Addressed(i) => Fresh(i)

\* C19: with workers that go on to reply to the commands they have, a wait
\* with timeout None on an apply round eventually ends, returning or raising
\* the remote failure, not a Timeout.
C19_ApplyCompletes ==
    C19_RoundWaiting
        ~> (/\ pc = "done"
            /\ call.wait = WAITING_APPLY
            /\ \/ ret.kind = "return"
               \/ ret.exc = "RemoteError")

\* A wait with timeout None that found no reply yet on the pipe of an
\* addressed worker: it blocks there.
C19_Witness ==
    /\ C19_RoundWaiting
    /\ \E i \in Workers : Addressed(i) /\ toCtrl[i] = <<>>
    /\ \E i \in Workers : ~Addressed(i)

\* C20: apply_async given a list whose length is not N, with the call state
\* Idle, fails: it sends no command and leaves the call state, expects_result
\* and the pipes as they were.
C20_WrongLengthRejected ==
    [][(/\ state = DEFAULT
        /\ \E functions \in FunctionArgs :
              /\ functions.kind = "list"
              /\ Len(functions.v) # NumEnvs
              /\ ApplyAsync(functions))
        => /\ ret'.kind = "raise"
           /\ UNCHANGED <<state, expects_result, toWorker, toCtrl, sent>>]_vars

C20_Witness ==
    /\ pc = "done"
    /\ ret.op = "apply_async"
    /\ ret.exc = "AssertionError"
    /\ state = DEFAULT
    /\ Len(expects_result) = NumEnvs
    /\ \A i \in Workers : toWorker[i] = <<>>

\* The attribute a read of `name` finds on worker i's environment.
AttrOf(i, name) == GetAttr(envs[i], 1, name)

\* What a read of `name` on worker i yields: the bound method of that
\* worker's environment, or the plain value.
AttrResult(i, name) ==
    IF AttrOf(i, name) = Method THEN <<"method", EnvOf(i)>>
    ELSE <<"value", AttrOf(i, name)>>

\* The name a proxy round is about, taken from the unit sent to its first
\* addressed worker.
RoundName == UnitName(sent[Indices(call.index)[1] + 1])

\* A proxy call on at least one worker has returned.
ProxyReturned(op) ==
    /\ pc = "done"
    /\ call.op = op
    /\ ret.kind = "return"
    /\ Indices(call.index) # <<>>

\* C12: a read through the Proxy returns a BatchedMethod exactly when the
\* name is a bound method on every addressed worker, an integer index
\* included; otherwise it returns the plain values in the order the workers
\* are addressed (one value for an integer index); and calling the
\* BatchedMethod returns the per-worker results of invoking the method.
C12_ProxyReadBatchesMethods ==
    /\ ProxyReturned("proxy_get") =>
        LET idx == Indices(call.index)
            allMethods == \A j \in 1 .. Len(idx) : AttrOf(idx[j], RoundName) = Method
        IN /\ ret.batched <=> allMethods
           /\ ~allMethods =>
                ret.value = IF call.index.kind = "int"
                            THEN AttrResult(idx[1], RoundName)
                            ELSE [j \in 1 .. Len(idx) |-> AttrResult(idx[j], RoundName)]
    /\ ProxyReturned("batched_call") =>
        LET idx == Indices(call.index)
        IN ret.value = [j \in 1 .. Len(idx) |-> <<"called", EnvOf(idx[j])>>]

\* C13: after `coordinator[i].attr = v` (i an integer), reading
\* `coordinator[i].attr` returns v, for every name and every wrapper chain.
C13_SetThenGetRoundTrip ==
    (/\ pc = "done"
     /\ call.op = "proxy_get"
     /\ call.index.kind = "int"
     /\ prev.kind = "set"
     /\ prev.index.v = call.index.v
     /\ prev.name = RoundName)
    => /\ ret.kind = "return"
       /\ ~ret.batched
       /\ ret.value = <<"value", NewValue>>

\* __getattr__ has returned or raised (it was not rejected for a pending
\* call, so the state was Idle when it was called).
GetAttrDone ==
    /\ pc = "done"
    /\ ret.op = "getattr"
    /\ ret.exc # "AlreadyPendingCall"

\* The name the __getattr__ call in progress is about.
GetAttrName == UnitName(sent[1])

\* C14: __getattr__ for a name the coordinator does not define, called in
\* state Idle, asks every worker whether its environment has the name and
\* forwards to a proxy over all workers exactly when all of them have it;
\* otherwise it raises AttributeError naming the attribute.  Each round it
\* issued is completed and the state is Idle afterwards.
C14_GetAttrForwardsIffAllHave ==
    GetAttrDone =>
        LET allHave == \A i \in Workers : HasAttr(envs[i], 1, GetAttrName)
        IN /\ state = DEFAULT
           /\ \A i \in Workers : ~Fresh(i)
           /\ allHave => /\ ret.kind = "return"
                         /\ call.op = "getattr"
                         /\ call.index = FullIndex
           /\ ~allHave => /\ ret.kind = "raise"
                          /\ ret.exc = "AttributeError"
                          /\ ret.named = GetAttrName

\* The workers a slice selects from range(N), as a set: those from its first
\* index on, before its stop, a whole number of steps from the first.
SliceMembers(sl) ==
    LET step == IF sl.step.some THEN sl.step.n ELSE 1
        fromEnd(n) == IF n < 0 THEN n + NumEnvs ELSE n
        first == IF step > 0
                 THEN (IF ~sl.start.some THEN 0
                       ELSE IF fromEnd(sl.start.n) < 0 THEN 0 ELSE fromEnd(sl.start.n))
                 ELSE (IF ~sl.start.some THEN NumEnvs - 1
                       ELSE Min(fromEnd(sl.start.n), NumEnvs - 1))
    IN IF step > 0
       THEN {i \in Workers : /\ i >= first
                             /\ sl.stop.some => i < fromEnd(sl.stop.n)
                             /\ (i - first) % step = 0}
       ELSE {i \in Workers : /\ i <= first
                             /\ sl.stop.some => i > fromEnd(sl.stop.n)
                             /\ (first - i) % (-step) = 0}

\* The members of S in ascending (or descending) order.
InOrder(S, ascending) ==
    CHOOSE q \in [1 .. Cardinality(S) -> S] :
        \A a, b \in 1 .. Cardinality(S) :
            a < b => IF ascending THEN q[a] < q[b] ELSE q[a] > q[b]

\* The index tuple coordinator[index] is said to resolve to.
Resolved(index) ==
    IF index.kind = "int" THEN <<index.v>>
    ELSE IF index.kind = "list" THEN index.v
    ELSE IF index.kind = "mask"
    THEN InOrder({i \in Workers : index.v[i + 1]}, TRUE)
    ELSE InOrder(SliceMembers(index.v), index.v.step.some => index.v.step.n > 0)

\* A round of the proxy coordinator[given] is under way or has ended.
ProxyRound ==
    /\ pc \in {"recv", "done"}
    /\ call.op \in {"proxy_get", "proxy_set"}

\* C15: coordinator[index] resolves a slice to range(N) sliced by it, a
\* list to the tuple of its elements in the given order (duplicates kept), a
\* boolean mask of length N to the ascending indices of its true entries and
\* an int to that single index; the Proxy sends its operations to exactly
\* those workers.
C15_GetItemResolvesIndex ==
    ProxyRound =>
        /\ Indices(call.index) = Resolved(given)
        /\ (call.index.kind = "int") <=> (given.kind = "int")
        /\ \A i \in Workers :
            /\ expects_result[i + 1] <=> InList(i, Resolved(given))
            /\ Callable(sent[i + 1]) <=> InList(i, Resolved(given))
            /\ ~InList(i, Resolved(given)) => ~Fresh(i)

\* A read through a proxy made from a list that names a worker twice has
\* returned.
C15_Witness ==
    /\ ProxyRound
    /\ pc = "done"
    /\ ret.kind = "return"
    /\ given.kind = "list"
    /\ \E a, b \in 1 .. Len(given.v) : a # b /\ given.v[a] = given.v[b]

\* Worker i takes a command off its channel in this step.
Received(i) == Len(toWorker'[i]) = Len(toWorker[i]) - 1

\* C18: the worker loop sends exactly one Reply for every command it
\* receives other than Close, also when executing the command raises; it
\* stays in its loop after such a failure, ready for the next command, and
\* leaves it only on receiving Close.
C18_WorkerLoop ==
    [][\A i \in Workers :
        /\ (Received(i) /\ Head(toWorker[i]).tag # "close") =>
              /\ toCtrl'[i] = Append(toCtrl[i], Reply(toCtrl'[i][Len(toCtrl'[i])].value,
                                                      toCtrl'[i][Len(toCtrl'[i])].success,
                                                      Head(toWorker[i]).stale))
              /\ alive'[i]
        /\ Len(toCtrl'[i]) > Len(toCtrl[i]) => Received(i)
        /\ (alive[i] /\ ~alive'[i]) => (Received(i) /\ Head(toWorker[i]).tag = "close")
        /\ (alive[i] /\ toWorker[i] # <<>>) => ENABLED (WorkerStep(i) \/ WorkerWrite(i))
      ]_vars

\* A worker whose command failed has answered the command after it: its
\* failure reply and the next reply are both on the channel.
C18_Witness ==
    \E i \in Workers :
        /\ Len(toCtrl[i]) >= 2
        /\ ~toCtrl[i][1].success
        /\ toCtrl[i][2].success
        /\ alive[i]

\* An apply_at round with an int index that names no worker is under way or
\* has ended.
OutOfRangeRound ==
    /\ pc \in {"recv", "done"}
    /\ call.op = "apply_at"
    /\ call.index.kind = "int"
    /\ call.index.v \notin Workers

\* C26: apply_at(f, i) with an int i outside 0 .. N-1 addresses no worker: no
\* Apply command is sent and f runs on no environment, the round ends with
\* the state Idle, and no result of f comes back: None for i in -N .. -1, an
\* IndexError otherwise.
C26_OutOfRangeIndexAddressesNobody ==
    OutOfRangeRound =>
        /\ \A i \in Workers : /\ ~expects_result[i + 1]
                              /\ sent[i + 1] = None
                              /\ ~Fresh(i)
        /\ pc = "done" =>
            /\ state = DEFAULT
            /\ IF call.index.v \in (-NumEnvs) .. -1
               THEN ret.kind = "return" /\ ret.value = NoneValue
               ELSE ret.kind = "raise" /\ ret.exc = "IndexError"

\* apply_at(f, -1) has returned.
C26_Witness ==
    /\ OutOfRangeRound
    /\ pc = "done"
    /\ call.index.v = -1
    /\ ret.kind = "return"

\* __getattr__ was rejected because a call is pending.
GetAttrRejected ==
    /\ pc = "done"
    /\ ret.op = "getattr_probe"
    /\ ret.exc = "AlreadyPendingCall"

\* C25: reading an attribute the coordinator does not define while a call is
\* pending raises AlreadyPendingCall from the hasattr probe (not
\* AttributeError), sends nothing to any worker and leaves the pending call
\* and the state as they were, so that the caller is back where the matching
\* wait can be issued.
C25_GetAttrWhilePending ==
    [][/\ \A name \in Names :
            (state # DEFAULT /\ GetAttrProbe(name)) =>
                /\ ret'.kind = "raise"
                /\ ret'.exc = "AlreadyPendingCall"
                /\ ret'.named = state
                /\ pc' = "done"
                /\ UNCHANGED <<state, expects_result, toWorker, toCtrl, sent>>
       /\ (GetAttrRejected /\ Continue) =>
                /\ pc' = "idle"
                /\ state' = ret.named
                /\ state' # DEFAULT
                /\ sent' = sent
                /\ UNCHANGED <<expects_result, toWorker, toCtrl>>
      ]_vars

\* __getattr__ was rejected while an apply round was pending with a command
\* or a reply of it on a pipe.
C25_Witness ==
    /\ GetAttrRejected
    /\ state = WAITING_APPLY
    /\ \E i \in Workers : Fresh(i)

\* Channel i holds no command that is not yet executed and no reply that is
\* not yet read.
ChannelEmpty(i) == toWorker[i] = <<>> /\ toCtrl[i] = <<>>

\* The controller sends a command to worker i in this step.
SendsTo(i) == Len(toWorker'[i]) > Len(toWorker[i])

\* C24: in every run without a timeout each channel alternates command and
\* reply: the controller sends a command to worker i only when every command
\* it sent to worker i earlier has been answered and the reply read, and
\* whenever the state is Idle no channel holds an undelivered command or an
\* unread reply.
C24_ChannelsAlternate ==
    [][/\ \A i \in Workers : SendsTo(i) =>
            /\ ChannelEmpty(i)
            /\ Len(toWorker'[i]) = 1
       /\ state' = DEFAULT => \A i \in Workers : ChannelEmpty(i)'
      ]_vars

\* A round that addressed every worker has ended: the state is Idle again
\* after commands were sent and their replies read.
C24_Witness ==
    /\ pc = "done"
    /\ state = DEFAULT
    /\ ret.kind = "return"
    /\ Len(staleRead) = NumEnvs
    /\ \A i \in Workers : Addressed(i) /\ ChannelEmpty(i)

\* The keys the cache holds, as a set.
CachedKeys(c) == {c.keys[j] : j \in 1 .. Len(c.keys)}

\* C23: proxies are memoized by the resolved index: a lookup whose index
\* resolves to a key that is cached returns the cached Proxy (no new one is
\* made, whatever form the index was given in), a lookup of a key that is
\* not cached makes one, and after any sequence of lookups the number of
\* cached proxies is within the fixed bound of the cache.
C23_ProxiesMemoized ==
    [][\A index \in LookupForms : Lookup(index) =>
        /\ GetItem(index) \in CachedKeys(cache) =>
              /\ ~cache'.made
              /\ CachedKeys(cache') = CachedKeys(cache)
        /\ GetItem(index) \notin CachedKeys(cache) => cache'.made
        /\ GetItem(index) \in CachedKeys(cache')
        /\ Len(cache'.keys) <= LruMaxSize
        /\ Cardinality(CachedKeys(cache')) = Len(cache'.keys)
      ]_vars

\* The cache is full and the latest lookup returned a Proxy it held.
C23_Witness ==
    /\ Len(cache.keys) = LruMaxSize
    /\ ~cache.made

\* The objects of the chain given to set_wrapper_attribute that have the
\* attribute (hasattr is true of them) before the call.
HadAttr == {j \in 1 .. Len(swa.was) :
               HasAttrAt([swa EXCEPT !.layers = swa.was], j, swa.name) = "True"}

\* The object the attribute is to be set on: the first along the chain that
\* has it, else the last one reached (the innermost environment, or the
\* first object met again in a cycle).
SetTarget ==
    IF HadAttr # {} THEN CHOOSE j \in HadAttr : \A q \in HadAttr : j <= q
    ELSE IF swa.back = 0 THEN Len(swa.was)
    ELSE swa.back

\* C21: set_wrapper_attribute terminates for every wrapper chain, one with a
\* cycle included (it does not raise, and its loop takes no more turns than
\* the chain has objects), and sets the attribute on exactly one object: the
\* first along the chain that already has it, or else the last one reached.
C21_SetWrapperAttributeTerminates ==
    /\ swa.at # "raised"
    /\ Len(swa.wrappers) <= Len(swa.layers)
    /\ swa.at = "done" =>
        \A j \in 1 .. Len(swa.layers) :
            swa.layers[j] = IF j = SetTarget
                            THEN [swa.was[j] EXCEPT ![swa.name] = NewValue]
                            ELSE swa.was[j]

\* A bulk operation of a proxy, called in state Idle, has come to its end.
BulkDone ==
    /\ pc = "done"
    /\ ret.op \in {"getattributes", "setattributes"}
    /\ ret.exc # "AlreadyPendingCall"

\* A round of a bulk operation is under way or has ended.
BulkRound ==
    /\ pc \in {"recv", "done"}
    /\ call.op \in {"getattributes", "setattributes"}

\* Messages of the round in progress on channel i.
FreshOn(i) ==
    Cardinality({j \in 1 .. Len(toWorker[i]) : ~toWorker[i][j].stale})
    + Cardinality({j \in 1 .. Len(toCtrl[i]) : ~toCtrl[i][j].stale})

\* The worker the loop of the wait has already read (or passed over).
ReadBy(i) == pc = "done" \/ i < k

\* What reading `names` yields on an environment on which every one of them
\* was set to NewValue.
ValuesSet(names) ==
    IF Len(names) = 1 THEN <<"value", NewValue>>
    ELSE <<"values", [j \in 1 .. Len(names) |-> NewValue]>>

====
